---- MODULE Spec2Model ----
(***************************************************************************)
(* A model of the sandboxed filesystem server of this repository:          *)
(*   - FileSystemManager (src/src/filesystem/mod.rs): the path sandbox and *)
(*     the filesystem operations built on it;                              *)
(*   - FileSystemServer (src/src/filesystem_server.rs) and main            *)
(*     (src/bin/filesystem_server.rs): the second path sandbox, the        *)
(*     request handlers and the run loop.                                  *)
(* Paths are sequences of components, a component is a sequence of         *)
(* characters, so that the string operations of the code (to_lowercase,    *)
(* str::starts_with, str::contains) and its path operations (clean,        *)
(* Path::starts_with, canonicalize) are different operators.               *)
(***************************************************************************)
EXTENDS Integers, Sequences, FiniteSets, TLC

(* ------------------------------ bounds -------------------------------- *)
\* Longest raw path a caller passes, in components.
MaxPathLen == 3
\* Symbolic links one path resolution follows before the OS gives up (ELOOP).
MaxLinkHops == 2
\* Filesystem-mutating calls (write, create_directory, move) in one behaviour.
MaxMutations == 1
\* Longest list of paths of one read_multiple_files call.
MaxBatch == 3
\* Requests the peer sends in one behaviour.
MaxRequests == 3
\* Longest batch of read_multiple_files that repeats one path: longer than
\* the buffer of buffer_unordered.
MaxLongBatch == 11

(* --------------------------- program constants ------------------------ *)
\* buffer_unordered(10)
BufferLimit == 10

(* ------------------------- characters and names ----------------------- *)
Slash == "/"
nD == <<"d">>
nDo == <<"d", "o">>
nK == <<"k">>
nA == <<"a">>
nUpA == <<"A">>
Dot == <<".">>
DotDot == <<".", ".">>

\* The component names a caller can write in a path.
Components == {nD, nDo, nK, nA, DotDot}

\* char::to_lowercase on the alphabet of the model.
LowerChar(c) ==
  CASE c = "A" -> "a"
    [] c = "D" -> "d"
    [] c = "K" -> "k"
    [] c = "O" -> "o"
    [] OTHER -> c

\* str::to_lowercase
ToLowercase(s) == [i \in 1..Len(s) |-> LowerChar(s[i])]

\* str::starts_with(prefix): a comparison of characters.
StrStartsWith(s, prefix) ==
  /\ Len(prefix) <= Len(s)
  /\ \A i \in 1..Len(prefix) : s[i] = prefix[i]

\* str::contains(pattern): pattern occurs as a substring.
StrContains(s, pattern) ==
  \E i \in 0..(Len(s) - Len(pattern)) :
    \A j \in 1..Len(pattern) : s[i + j] = pattern[j]

\* Sequence prefix, used on sequences of components.
IsPrefix(a, b) ==
  /\ Len(a) <= Len(b)
  /\ \A i \in 1..Len(a) : b[i] = a[i]

Front(s) == SubSeq(s, 1, Len(s) - 1)
Last(s) == s[Len(s)]

(* ------------------------------- paths -------------------------------- *)
\* A raw path (Path / PathBuf / String argument): absolute or relative.
RawPath(abs, comps) == [abs |-> abs, comps |-> comps]
AbsPath(comps) == RawPath(TRUE, comps)

RECURSIVE SeqsUpTo(_, _)
SeqsUpTo(S, n) ==
  IF n = 0 THEN {<<>>}
  ELSE LET shorter == SeqsUpTo(S, n - 1)
       IN  shorter \cup {Append(s, x) : s \in {t \in shorter : Len(t) = n - 1}, x \in S}

\* std::env::current_dir(): the working directory of the process.
Cwd == <<nD>>

\* Path::is_absolute, then cwd.join(path): joining an absolute path replaces.
Absolute(p) == IF p.abs THEN p ELSE AbsPath(Cwd \o p.comps)

RECURSIVE CleanComps(_, _, _)
CleanComps(abs, comps, out) ==
  IF comps = <<>> THEN out
  ELSE LET c == Head(comps)
           rest == Tail(comps)
       IN  IF c = Dot THEN CleanComps(abs, rest, out)
           ELSE IF c = DotDot
             THEN IF out # <<>> /\ Last(out) # DotDot
                    THEN CleanComps(abs, rest, Front(out))
                  ELSE IF abs THEN CleanComps(abs, rest, out)
                  ELSE CleanComps(abs, rest, Append(out, c))
           ELSE CleanComps(abs, rest, Append(out, c))

\* path_clean::clean: lexical only, no filesystem access.
Clean(p) == RawPath(p.abs, CleanComps(p.abs, p.comps, <<>>))

RECURSIVE JoinComps(_)
JoinComps(comps) ==
  IF comps = <<>> THEN <<>>
  ELSE IF Len(comps) = 1 THEN comps[1]
  ELSE comps[1] \o <<Slash>> \o JoinComps(Tail(comps))

\* Path::to_string_lossy
ToStringLossy(p) ==
  IF p.abs THEN <<Slash>> \o JoinComps(p.comps)
  ELSE IF p.comps = <<>> THEN Dot
  ELSE JoinComps(p.comps)

\* Path::components: interior "." components are dropped.
PathComponents(p) == SelectSeq(p.comps, LAMBDA c : c # Dot)

\* Path::starts_with(base): a comparison of whole components.
PathStartsWith(p, base) ==
  /\ p.abs = base.abs
  /\ IsPrefix(PathComponents(base), PathComponents(p))

(* ----------------------------- filesystem ----------------------------- *)
\* The filesystem is a function from the absolute, link-free paths of its
\* entries to nodes; the root directory <<>> always exists.
FileNode(content) == [kind |-> "file", content |-> content, target |-> <<>>]
DirNode == [kind |-> "dir", content |-> "", target |-> <<>>]
LinkNode(target) == [kind |-> "link", content |-> "", target |-> target]

Exists(f, path) == path = <<>> \/ path \in DOMAIN f
KindAt(f, path) == IF path = <<>> THEN "dir" ELSE f[path].kind
Children(f, dir) == {q \in DOMAIN f : Len(q) = Len(dir) + 1 /\ IsPrefix(dir, q)}

Found(path, fuel) == [ok |-> TRUE, path |-> path, err |-> "", fuel |-> fuel]
Failed(err) == [ok |-> FALSE, path |-> <<>>, err |-> err, fuel |-> 0]

\* The OS's path resolution from directory cur: every symbolic link is
\* followed, ".." is the parent of the directory reached (not of the text),
\* and at most MaxLinkHops links are followed. With create, a missing last
\* component resolves to the place it would be created at.
RECURSIVE Walk(_, _, _, _, _)
Walk(f, cur, comps, fuel, create) ==
  IF comps = <<>> THEN Found(cur, fuel)
  ELSE IF ~Exists(f, cur) THEN Failed("NotFound")
  ELSE IF KindAt(f, cur) # "dir" THEN Failed("NotADirectory")
  ELSE LET c == Head(comps)
           rest == Tail(comps)
           child == Append(cur, c)
       IN  IF c = Dot THEN Walk(f, cur, rest, fuel, create)
           ELSE IF c = DotDot
             THEN Walk(f, IF cur = <<>> THEN cur ELSE Front(cur), rest, fuel, create)
           ELSE IF ~Exists(f, child)
             THEN IF create /\ rest = <<>> THEN Found(child, fuel)
                  ELSE Failed("NotFound")
           ELSE IF KindAt(f, child) = "link"
             THEN IF fuel = 0 THEN Failed("Loop")
                  ELSE LET t == Walk(f, <<>>, f[child].target, fuel - 1,
                                     create /\ rest = <<>>)
                       IN  IF ~t.ok THEN t
                           ELSE Walk(f, t.path, rest, t.fuel, create)
           ELSE Walk(f, child, rest, fuel, create)

\* fs::canonicalize / what a syscall given the path operates on.
Canonicalize(f, p) ==
  LET r == Walk(f, <<>>, Absolute(p).comps, MaxLinkHops, FALSE)
  IN  IF r.ok /\ ~Exists(f, r.path) THEN Failed("NotFound") ELSE r

\* Path::is_dir: metadata(path), every error read as "not a directory".
IsDir(f, p) ==
  LET r == Canonicalize(f, p)
  IN  r.ok /\ KindAt(f, r.path) = "dir"

\* Resolution that does not follow the last component (rename, mkdir).
ResolveNoFollow(f, p) ==
  LET comps == Absolute(p).comps
  IN  IF comps = <<>> \/ Last(comps) \in {Dot, DotDot} THEN Failed("InvalidInput")
      ELSE LET par == Walk(f, <<>>, Front(comps), MaxLinkHops, FALSE)
           IN  IF ~par.ok THEN par
               ELSE IF ~Exists(f, par.path) THEN Failed("NotFound")
               ELSE IF KindAt(f, par.path) # "dir" THEN Failed("NotADirectory")
               ELSE Found(Append(par.path, Last(comps)), par.fuel)

\* The outcome of a filesystem call: the value it returns and the
\* filesystem it leaves.
IoOk(val, f) == [ok |-> TRUE, err |-> "", val |-> val, fs |-> f]
IoErr(err, f) == [ok |-> FALSE, err |-> err, val |-> <<>>, fs |-> f]

\* tokio::fs::read_to_string
ReadToString(f, p) ==
  LET r == Canonicalize(f, p)
  IN  IF ~r.ok THEN IoErr(r.err, f)
      ELSE IF KindAt(f, r.path) # "file" THEN IoErr("IsADirectory", f)
      ELSE IoOk(f[r.path].content, f)

\* f with path bound to node.
Put(f, path, node) ==
  [q \in DOMAIN f \cup {path} |-> IF q = path THEN node ELSE f[q]]

\* tokio::fs::write: create or truncate, following links.
WriteFile(f, p, content) ==
  LET r == Walk(f, <<>>, Absolute(p).comps, MaxLinkHops, TRUE)
  IN  IF ~r.ok THEN IoErr(r.err, f)
      ELSE IF r.path = <<>> THEN IoErr("IsADirectory", f)
      ELSE IF ~Exists(f, Front(r.path)) THEN IoErr("NotFound", f)
      ELSE IF KindAt(f, Front(r.path)) # "dir" THEN IoErr("NotADirectory", f)
      ELSE IF Exists(f, r.path) /\ KindAt(f, r.path) # "file"
        THEN IoErr("IsADirectory", f)
      ELSE IoOk(<<>>, Put(f, r.path, FileNode(content)))

\* mkdir(2)
Mkdir(f, p) ==
  LET r == ResolveNoFollow(f, p)
  IN  IF ~r.ok THEN IoErr(IF r.err = "InvalidInput" THEN "AlreadyExists" ELSE r.err, f)
      ELSE IF Exists(f, r.path) THEN IoErr("AlreadyExists", f)
      ELSE IoOk(<<>>, Put(f, r.path, DirNode))

\* Path::parent: the path without its last component, lexically.
ParentOf(p) == RawPath(p.abs, Front(p.comps))

\* tokio::fs::create_dir_all (std's DirBuilder::create_dir_all).
RECURSIVE CreateDirAll(_, _)
CreateDirAll(f, p) ==
  IF p.comps = <<>> THEN IoOk(<<>>, f)
  ELSE LET first == Mkdir(f, p)
       IN  IF first.ok THEN first
           ELSE IF first.err # "NotFound"
             THEN IF IsDir(f, p) THEN IoOk(<<>>, f) ELSE first
           ELSE LET up == CreateDirAll(f, ParentOf(p))
                IN  IF ~up.ok THEN up
                    ELSE LET again == Mkdir(up.fs, p)
                         IN  IF again.ok THEN again
                             ELSE IF IsDir(up.fs, p) THEN IoOk(<<>>, up.fs)
                             ELSE IoErr(again.err, up.fs)

\* The entries of f with every entry at or under from moved to under to.
Relabel(f, from, to) ==
  LET moved == {q \in DOMAIN f : IsPrefix(from, q)}
      newName(q) == to \o SubSeq(q, Len(from) + 1, Len(q))
      kept == (DOMAIN f \ moved) \ {to}
  IN  [q \in kept \cup {newName(m) : m \in moved} |->
         IF q \in kept THEN f[q]
         ELSE f[CHOOSE m \in moved : newName(m) = q]]

\* rename(2), which tokio::fs::rename calls: an existing destination is
\* replaced (a file by a file or link, an empty directory by a directory).
Rename(f, src, dst) ==
  LET s == ResolveNoFollow(f, src)
      d == ResolveNoFollow(f, dst)
  IN  IF ~s.ok THEN IoErr(s.err, f)
      ELSE IF ~d.ok THEN IoErr(d.err, f)
      ELSE IF ~Exists(f, s.path) THEN IoErr("NotFound", f)
      ELSE IF s.path = d.path THEN IoOk(<<>>, f)
      ELSE IF KindAt(f, s.path) = "dir"
        THEN IF IsPrefix(s.path, d.path) THEN IoErr("InvalidInput", f)
             ELSE IF Exists(f, d.path) /\ KindAt(f, d.path) # "dir"
               THEN IoErr("NotADirectory", f)
             ELSE IF Exists(f, d.path) /\ Children(f, d.path) # {}
               THEN IoErr("DirectoryNotEmpty", f)
             ELSE IoOk(<<>>, Relabel(f, s.path, d.path))
      ELSE IF Exists(f, d.path) /\ KindAt(f, d.path) = "dir"
        THEN IoErr("IsADirectory", f)
      ELSE IoOk(<<>>, Relabel(f, s.path, d.path))

\* tokio::fs::read_dir: the names of the entries of the directory.
ReadDir(f, p) ==
  LET r == Canonicalize(f, p)
  IN  IF ~r.ok THEN IoErr(r.err, f)
      ELSE IF KindAt(f, r.path) # "dir" THEN IoErr("NotADirectory", f)
      ELSE IoOk({Last(q) : q \in Children(f, r.path)}, f)

\* tokio::fs::metadata: follows links.
Metadata(f, p) ==
  LET r == Canonicalize(f, p)
  IN  IF ~r.ok THEN IoErr(r.err, f)
      ELSE IoOk([is_directory |-> KindAt(f, r.path) = "dir",
                 is_file |-> KindAt(f, r.path) = "file"], f)

\* The trees a behaviour starts from: /d and /do are directories, each with
\* a file a; /d also holds a file A and k, which is either a symbolic link
\* to /do or a directory of its own.
TreeWithLink ==
  (<<nD>> :> DirNode) @@ (<<nDo>> :> DirNode) @@
  (<<nD, nA>> :> FileNode("x")) @@ (<<nD, nUpA>> :> FileNode("y")) @@
  (<<nDo, nA>> :> FileNode("z")) @@ (<<nD, nK>> :> LinkNode(<<nDo>>))
TreeNoLink ==
  (<<nD>> :> DirNode) @@ (<<nDo>> :> DirNode) @@
  (<<nD, nA>> :> FileNode("x")) @@ (<<nD, nUpA>> :> FileNode("y")) @@
  (<<nDo, nA>> :> FileNode("z")) @@ (<<nD, nK>> :> DirNode) @@
  (<<nD, nK, nA>> :> FileNode("x"))
InitialTrees == {TreeWithLink, TreeNoLink}

(* ---------------------------- path sandboxes -------------------------- *)
ValidOk(path) == [ok |-> TRUE, path |-> path, err |-> ""]
ValidErr(path, err) == [ok |-> FALSE, path |-> path, err |-> err]

\* FileSystemManager::new: each directory is cleaned, turned into a string
\* and lower-cased; it is not made absolute.
ManagerNew(dirs) == {ToLowercase(ToStringLossy(Clean(d))) : d \in dirs}

\* The containment test of FileSystemManager::validate_path:
\* normalized.starts_with(dir.to_string_lossy().as_ref()), on strings.
ManagerContains(dir, normalized) == StrStartsWith(normalized, dir)

\* FileSystemManager::validate_path: the path is normalised by clean (no
\* filesystem access) and lower-cased for the test only; the path returned
\* is the absolute path as given.
ManagerValidatePath(allowed, p) ==
  LET absolute == Absolute(p)
      normalized == ToLowercase(ToStringLossy(Clean(absolute)))
  IN  IF ~\E dir \in allowed : ManagerContains(dir, normalized)
        THEN ValidErr(absolute, "AccessDenied")
      ELSE ValidOk(absolute)

\* FileSystemServer::new: the directories are stored as given.
ServerNew(dirs) == dirs

\* FileSystemServer::validate_path: canonicalize, then Path::starts_with;
\* both failures are McpError::IoError.
ServerValidatePath(allowed, f, p) ==
  LET absolute == Absolute(p)
      normalized == Canonicalize(f, absolute)
  IN  IF ~normalized.ok THEN ValidErr(absolute, "IoError")
      ELSE IF \E allowed_dir \in allowed :
                PathStartsWith(AbsPath(normalized.path), allowed_dir)
        THEN ValidOk(AbsPath(normalized.path))
      ELSE ValidErr(absolute, "IoError")

(* ------------------------------ operations ---------------------------- *)
\* FileSystemManager::read_file as one result: validate, then read; an
\* io::Error becomes an McpError through `?`.
ReadFile(allowed, f, p) ==
  LET v == ManagerValidatePath(allowed, p)
  IN  IF ~v.ok THEN IoErr(v.err, f)
      ELSE LET r == ReadToString(f, v.path)
           IN  IF r.ok THEN r ELSE IoErr("IoError", f)

\* The test of search_dir on an entry's name:
\* n.to_lowercase().contains(&pattern), pattern lower-cased by search_files.
NameMatches(name, pattern) ==
  StrContains(ToLowercase(name), ToLowercase(pattern))

\* search_dir of FileSystemManager::search_files: for every entry of dir,
\* validate dir.join(name); a validated entry is reported when its name
\* matches and descended into when Path::is_dir says so. The result is the
\* set of reported strings (read_dir's order is the operating system's), or
\* the error that `?` propagates.
RECURSIVE SearchDir(_, _, _, _)
SearchDir(allowed, f, dir, pattern) ==
  LET rd == ReadDir(f, dir)
  IN  IF ~rd.ok THEN IoErr("IoError", f)
      ELSE LET entry(n) == RawPath(dir.abs, Append(dir.comps, n))
               seen == {n \in rd.val : ManagerValidatePath(allowed, entry(n)).ok}
               hits == {ToStringLossy(entry(n)) : n \in {m \in seen : NameMatches(m, pattern)}}
               subs == {SearchDir(allowed, f, entry(n), pattern) :
                          n \in {m \in seen : IsDir(f, entry(m))}}
           IN  IF \E r \in subs : ~r.ok THEN IoErr("IoError", f)
               ELSE IoOk(hits \cup UNION {r.val : r \in subs}, f)

\* search_dir of FileSystemServer: a match is reported, and a directory
\* among the entries panics ("Not implemented"); search_files unwraps.
ServerSearchFiles(f, root, pattern) ==
  LET rd == ReadDir(f, root)
      entry(n) == RawPath(root.abs, Append(root.comps, n))
  IN  IF ~rd.ok THEN IoErr("panic", f)
      ELSE IF \E n \in rd.val : IsDir(f, entry(n)) THEN IoErr("panic", f)
      ELSE IoOk({ToStringLossy(entry(n)) : n \in {m \in rd.val : NameMatches(m, pattern)}}, f)

(* -------------------------------- inputs ------------------------------ *)
\* Every raw path of at most MaxPathLen components, absolute or relative
\* (a relative one is one component shorter: the working directory is one
\* deep).
RawPaths ==
  {AbsPath(c) : c \in SeqsUpTo(Components, MaxPathLen) \ {<<>>}}
    \cup {RawPath(FALSE, c) : c \in SeqsUpTo(Components, MaxPathLen - 1) \ {<<>>}}

\* The paths the filesystem operations are called with: the two top
\* directories, the entries of the initial trees, a name that is free in
\* them, a path through k, a path outside both directories, a path with
\* ".." and a relative path.
OpPaths ==
  {AbsPath(<<nD>>), AbsPath(<<nDo>>), AbsPath(<<nD, nA>>), AbsPath(<<nD, nUpA>>),
   AbsPath(<<nD, nK>>), AbsPath(<<nDo, nA>>), AbsPath(<<nD, nDo>>),
   AbsPath(<<nD, nK, nA>>), AbsPath(<<nK, nA>>), AbsPath(<<nD, DotDot, nA>>),
   RawPath(FALSE, <<nA>>)}
BatchPaths == {AbsPath(<<nD, nA>>), AbsPath(<<nK, nA>>), AbsPath(<<nD, nD>>)}
\* Batches long enough to fill the buffer of buffer_unordered and leave
\* paths waiting: one path, requested more than BufferLimit times.
LongBatches ==
  {[i \in 1..n |-> p] : n \in (BufferLimit + 1)..MaxLongBatch, p \in BatchPaths}
\* The path lists read_multiple_files is called with.
BatchInputs == SeqsUpTo(BatchPaths, MaxBatch) \cup LongBatches
Patterns == {<<"a">>, <<"A">>, <<"k">>}
Contents == {"w"}
\* The allow-lists a behaviour is constructed with: existing directories.
RootSets == {{AbsPath(<<nD>>)}, {AbsPath(<<nDo>>)}}
\* The directory arguments of the command line as a user may write them:
\* absolute, relative to the working directory, or through a symbolic link.
SuppliedRootSets ==
  {{AbsPath(<<nD>>)}, {AbsPath(<<nD>>), AbsPath(<<nDo>>)},
   {RawPath(FALSE, <<nK>>)}, {AbsPath(<<nD, nK>>)}}

PathOps == {"read_file", "write_file", "create_directory", "list_directory",
            "move_file", "search_files", "get_file_info"}
MutatingOps == {"write_file", "create_directory", "move_file"}

(* -------------------------------- state ------------------------------- *)
VARIABLES
  fs,           \* the filesystem
  roots,        \* the directories the sandboxes were constructed with
  mgrAllowed,   \* FileSystemManager.allowed_directories
  srvAllowed,   \* FileSystemServer.allowed_directories
  call,         \* the filesystem operation in progress, or the last one
  batch,        \* the read_multiple_files call in progress, or the last one
  mutations,    \* filesystem-mutating calls made so far
  srvPc,        \* where main / FileSystemServer::run is
  handlers,     \* the methods a request handler is registered for
  tools,        \* the descriptors the tools/list handler has captured
  transportOpen,\* the peer has not closed the stream
  inbox,        \* requests read from the transport, not yet answered
  outbox,       \* responses written, oldest first
  sent          \* requests the peer has sent so far

sandboxVars == <<fs, roots, mgrAllowed, srvAllowed, call, batch, mutations>>
serverVars == <<srvPc, handlers, tools, transportOpen, inbox, outbox, sent>>
vars == <<fs, roots, mgrAllowed, srvAllowed, call, batch, mutations,
          srvPc, handlers, tools, transportOpen, inbox, outbox, sent>>

NoCall ==
  [op |-> "none", paths |-> <<>>, content |-> "", pattern |-> <<>>,
   pc |-> "idle", valid |-> <<>>, io |-> <<>>, ok |-> FALSE, err |-> "",
   val |-> <<>>]
NoBatch ==
  [pc |-> "idle", paths |-> <<>>, next |-> 1, inflight |-> {},
   results |-> <<>>, ret |-> ""]

\* Nothing is running: a new call may start.
Quiet == call.pc = "idle" /\ batch.pc = "idle"

\* The state after FileSystemManager::new(roots) and
\* FileSystemServer::new(roots) have succeeded, before run().
Init ==
  /\ fs \in InitialTrees
  /\ roots \in RootSets
  /\ \A d \in roots : IsDir(fs, d)
  /\ mgrAllowed = ManagerNew(roots)
  /\ srvAllowed = ServerNew(roots)
  /\ call = NoCall
  /\ batch = NoBatch
  /\ mutations = 0
  /\ srvPc = "constructed"
  /\ handlers = {}
  /\ tools = <<>>
  /\ transportOpen = TRUE
  /\ inbox = {}
  /\ outbox = <<>>
  /\ sent = 0

\* The same state, for every way of writing the directories that main and
\* FileSystemManager::new accept: each is a directory (Path::is_dir).
ConstructedInit ==
  /\ fs \in InitialTrees
  /\ roots \in SuppliedRootSets
  /\ \A d \in roots : IsDir(fs, d)
  /\ mgrAllowed = ManagerNew(roots)
  /\ srvAllowed = ServerNew(roots)
  /\ call = NoCall
  /\ batch = NoBatch
  /\ mutations = 0
  /\ srvPc = "constructed"
  /\ handlers = {}
  /\ tools = <<>>
  /\ transportOpen = TRUE
  /\ inbox = {}
  /\ outbox = <<>>
  /\ sent = 0

(* ----------------------- FileSystemManager calls ---------------------- *)
Started(op, paths, content, pattern) ==
  [NoCall EXCEPT !.op = op, !.paths = paths, !.content = content,
                 !.pattern = pattern, !.pc = "validate"]

\* A caller invokes one of the path-bearing operations.
CallOp(op, paths, content, pattern) ==
  /\ Quiet
  /\ op \in MutatingOps => mutations < MaxMutations
  /\ call' = Started(op, paths, content, pattern)
  /\ mutations' = IF op \in MutatingOps THEN mutations + 1 ELSE mutations
  /\ UNCHANGED <<fs, roots, mgrAllowed, srvAllowed, batch>>
  /\ UNCHANGED serverVars

CallReadFile == \E p \in OpPaths : CallOp("read_file", <<p>>, "", <<>>)
CallWriteFile ==
  \E p \in OpPaths, c \in Contents : CallOp("write_file", <<p>>, c, <<>>)
CallCreateDirectory == \E p \in OpPaths : CallOp("create_directory", <<p>>, "", <<>>)
CallListDirectory == \E p \in OpPaths : CallOp("list_directory", <<p>>, "", <<>>)
CallMoveFile == \E s \in OpPaths, d \in OpPaths : CallOp("move_file", <<s, d>>, "", <<>>)
CallSearchFiles ==
  \E p \in OpPaths, pat \in Patterns : CallOp("search_files", <<p>>, "", pat)
CallGetFileInfo == \E p \in OpPaths : CallOp("get_file_info", <<p>>, "", <<>>)

\* The same statement with the `?` lost: the path is bound and the operation
\* goes on whatever validate_path said.
ValidatedUnchecked(c, r) ==
  [c EXCEPT !.valid = Append(@, r.path),
            !.pc = IF Len(c.valid) + 1 < Len(c.paths) THEN "validate" ELSE "io"]

\* `let valid = self.validate_path(arg).await?;` on the outcome r of
\* validate_path: an Err returns from the operation, an Ok binds the
\* validated path and goes on to the next statement.
Validated(c, r) ==
  IF ~r.ok THEN [c EXCEPT !.pc = "done", !.ok = FALSE, !.err = r.err]
  ELSE [c EXCEPT !.valid = Append(@, r.path),
                 !.pc = IF Len(c.valid) + 1 < Len(c.paths) THEN "validate"
                        ELSE "io"]

\* The next path argument goes through validate_path.
ValidateArg ==
  /\ call.pc = "validate"
  /\ call' = Validated(call, ManagerValidatePath(mgrAllowed, call.paths[Len(call.valid) + 1]))
  /\ UNCHANGED <<fs, roots, mgrAllowed, srvAllowed, batch, mutations>>
  /\ UNCHANGED serverVars

IoEntry(sys, paths) == [sys |-> sys, paths |-> paths]

\* The operation's filesystem call has returned r: Ok(value) or, through
\* `?`, the io::Error as an McpError.
Returned(c, sys, r) ==
  [c EXCEPT !.pc = "done", !.io = Append(@, IoEntry(sys, c.valid)),
            !.ok = r.ok, !.err = IF r.ok THEN "" ELSE "IoError",
            !.val = r.val]

IoStep(op, sys, r) ==
  /\ call.pc = "io"
  /\ call.op = op
  /\ call' = Returned(call, sys, r)
  /\ fs' = r.fs
  /\ UNCHANGED <<roots, mgrAllowed, srvAllowed, batch, mutations>>
  /\ UNCHANGED serverVars

ReadFileIo ==
  /\ call.pc = "io" /\ call.op = "read_file"
  /\ IoStep("read_file", "read_to_string", ReadToString(fs, call.valid[1]))
WriteFileIo ==
  /\ call.pc = "io" /\ call.op = "write_file"
  /\ IoStep("write_file", "write", WriteFile(fs, call.valid[1], call.content))
CreateDirectoryIo ==
  /\ call.pc = "io" /\ call.op = "create_directory"
  /\ IoStep("create_directory", "create_dir_all", CreateDirAll(fs, call.valid[1]))
\* list_directory: read_dir, then "[DIR]" or "[FILE]" by the entry's own
\* file type (a link is not a directory).
ListDirectoryIo ==
  /\ call.pc = "io" /\ call.op = "list_directory"
  /\ LET rd == ReadDir(fs, call.valid[1])
         dir == IF rd.ok THEN Canonicalize(fs, call.valid[1]).path ELSE <<>>
         line(n) == <<IF KindAt(fs, Append(dir, n)) = "dir" THEN "[DIR]" ELSE "[FILE]", n>>
     IN  IoStep("list_directory", "read_dir",
                IF rd.ok THEN IoOk({line(n) : n \in rd.val}, fs) ELSE rd)
MoveFileIo ==
  /\ call.pc = "io" /\ call.op = "move_file"
  /\ IoStep("move_file", "rename", Rename(fs, call.valid[1], call.valid[2]))
SearchFilesIo ==
  /\ call.pc = "io" /\ call.op = "search_files"
  /\ IoStep("search_files", "read_dir",
            SearchDir(mgrAllowed, fs, call.valid[1], call.pattern))
GetFileInfoIo ==
  /\ call.pc = "io" /\ call.op = "get_file_info"
  /\ IoStep("get_file_info", "metadata", Metadata(fs, call.valid[1]))

\* The caller takes the result of the call that has returned.
Return ==
  /\ call.pc = "done" \/ batch.pc = "done"
  /\ call' = NoCall
  /\ batch' = NoBatch
  /\ UNCHANGED <<fs, roots, mgrAllowed, srvAllowed, mutations>>
  /\ UNCHANGED serverVars

(* ------------------------ validate_path, called alone ----------------- *)
\* validate_path has returned r for path p.
ValidateDone(op, p, r) ==
  [NoCall EXCEPT !.op = op, !.paths = <<p>>, !.pc = "done", !.ok = r.ok,
                 !.err = r.err, !.valid = IF r.ok THEN <<r.path>> ELSE <<>>]

\* FileSystemManager::validate_path on a path.
ManagerValidate ==
  \E p \in RawPaths :
    /\ Quiet
    /\ call' = ValidateDone("validate_path", p, ManagerValidatePath(mgrAllowed, p))
    /\ UNCHANGED <<fs, roots, mgrAllowed, srvAllowed, batch, mutations>>
    /\ UNCHANGED serverVars

\* FileSystemServer::validate_path on a requested path.
ServerValidate ==
  \E p \in RawPaths :
    /\ Quiet
    /\ call' = ValidateDone("server_validate_path", p,
                            ServerValidatePath(srvAllowed, fs, p))
    /\ UNCHANGED <<fs, roots, mgrAllowed, srvAllowed, batch, mutations>>
    /\ UNCHANGED serverVars

(* -------------------------- read_multiple_files ----------------------- *)
\* One element of the result vector: (path, Ok(content) | Err(message)).
BatchEntry(p, r) == [path |-> p, ok |-> r.ok, val |-> IF r.ok THEN r.val ELSE r.err]

\* stream::iter(paths).map(..).buffer_unordered(10).collect() is called.
ReadMultipleFiles ==
  \E ps \in BatchInputs :
    /\ Quiet
    /\ batch' = [NoBatch EXCEPT !.pc = "running", !.paths = ps]
    /\ UNCHANGED <<fs, roots, mgrAllowed, srvAllowed, call, mutations>>
    /\ UNCHANGED serverVars

\* A buffer that takes every future the stream has (buffer_unordered
\* without its limit).
QueueHasRoomAlways(b) == TRUE

\* BufferUnordered::poll_next takes another future from the stream only
\* while fewer than the limit are in its queue.
QueueHasRoom(b) == Cardinality(b.inflight) < BufferLimit

\* BufferUnordered::poll_next first fills its queue from the stream, up to
\* the limit.
BatchSpawn ==
  /\ batch.pc = "running"
  /\ batch.next <= Len(batch.paths)
  /\ QueueHasRoom(batch)
  /\ batch' = [batch EXCEPT !.inflight = @ \cup {batch.next}, !.next = @ + 1]
  /\ UNCHANGED <<fs, roots, mgrAllowed, srvAllowed, call, mutations>>
  /\ UNCHANGED serverVars

\* The queue can take no more: it is full or the stream is exhausted.
QueueFilled(b) ==
  Cardinality(b.inflight) = BufferLimit \/ b.next > Len(b.paths)

\* self.read_file(&path) in a future of the batch. Its outcomes on the
\* trees and allow-lists a behaviour starts from are tabulated once; on
\* any other filesystem it is computed.
ReadOutcomes ==
  [f \in InitialTrees |->
    [a \in {ManagerNew(r) : r \in RootSets} |->
      [p \in BatchPaths |-> ReadFile(a, f, p)]]]
BatchRead(p) ==
  IF fs \in DOMAIN ReadOutcomes /\ mgrAllowed \in DOMAIN ReadOutcomes[fs]
       /\ p \in BatchPaths
    THEN ReadOutcomes[fs][mgrAllowed][p]
  ELSE ReadFile(mgrAllowed, fs, p)

\* Some future in the queue completes, and collect pushes its output: the
\* outputs arrive in completion order.
BatchComplete ==
  \E i \in batch.inflight :
    /\ batch.pc = "running"
    /\ QueueFilled(batch)
    /\ batch' = [batch EXCEPT
                   !.inflight = @ \ {i},
                   !.results = Append(@, BatchEntry(batch.paths[i],
                                         BatchRead(batch.paths[i])))]
    /\ UNCHANGED <<fs, roots, mgrAllowed, srvAllowed, call, mutations>>
    /\ UNCHANGED serverVars

\* A collect that stops at the first Err (try_collect).
BatchFinishedOnError(b) ==
  \/ b.next > Len(b.paths) /\ b.inflight = {}
  \/ \E k \in 1..Len(b.results) : ~b.results[k].ok

\* The stream of outputs ends when the input stream is exhausted and no
\* future is left in the queue.
BatchFinished(b) == b.next > Len(b.paths) /\ b.inflight = {}

\* collect() is ready and read_multiple_files returns Ok(results).
BatchReturn ==
  /\ batch.pc = "running"
  /\ BatchFinished(batch)
  /\ batch' = [batch EXCEPT !.pc = "done", !.ret = "Ok"]
  /\ UNCHANGED <<fs, roots, mgrAllowed, srvAllowed, call, mutations>>
  /\ UNCHANGED serverVars

(* ------------------------- FileSystemServer::run ---------------------- *)
\* create_tools: the tool descriptors, by name, in the order of the vec!.
CreateTools ==
  <<"read_file", "read_multiple_files", "write_file", "create_directory",
    "list_directory", "move_file", "search_files", "get_file_info",
    "list_allowed_directories">>
ToolNames == {CreateTools[i] : i \in 1..Len(CreateTools)}

\* A JSON object is a function from its keys to their values.
EmptyObject == [k \in {} |-> TRUE]

\* A tools/list handler that answers from a map keyed by tool name: the
\* descriptors come out in the order of the names, not of registration.
ListToolsHandlerByName(req) ==
  "tools" :> <<"create_directory", "get_file_info", "list_allowed_directories",
               "list_directory", "move_file", "read_file",
               "read_multiple_files", "search_files", "write_file">>

\* The "tools/list" handler of register_handlers: the closure owns the
\* vector create_tools() built at registration and answers every request,
\* whatever it holds, with ListToolsResponse { tools } of a clone of it.
ListToolsHandler(req) == "tools" :> tools

\* The "tools/call" handler of register_handlers: whatever the request,
\* Ok(serde_json::json!({})).
CallToolHandler(req) == EmptyObject

\* register_handlers: the two methods a handler is set for.
RegisteredMethods == {"tools/list", "tools/call"}

\* The requests a peer sends: the two registered methods, a method nobody
\* registered, and tools/call with a registered and an unregistered tool.
Request(id, method, name) == [id |-> id, method |-> method, name |-> name]
RequestShapes ==
  {<<"tools/list", "">>, <<"ping", "">>,
   <<"tools/call", "read_file">>, <<"tools/call", "no_such_tool">>}

ResultResponse(req, result) ==
  [id |-> req.id, method |-> req.method, name |-> req.name,
   kind |-> "result", result |-> result, error |-> ""]
ErrorResponse(req, error) ==
  [id |-> req.id, method |-> req.method, name |-> req.name,
   kind |-> "error", result |-> EmptyObject, error |-> error]

\* run(): the tool list is built and register_handlers sets the handlers.
RegisterHandlers ==
  /\ srvPc = "constructed"
  /\ srvPc' = "registered"
  /\ handlers' = RegisteredMethods
  /\ tools' = CreateTools
  /\ UNCHANGED <<transportOpen, inbox, outbox, sent>>
  /\ UNCHANGED sandboxVars

\* run(): self.protocol.connect(transport).await? succeeds, and run enters
\* its loop.
ConnectOk ==
  /\ srvPc = "registered"
  /\ srvPc' = "loop"
  /\ UNCHANGED <<handlers, tools, transportOpen, inbox, outbox, sent>>
  /\ UNCHANGED sandboxVars

\* run(): connect fails; `?` returns the error from run and main returns it.
ConnectErr ==
  /\ srvPc = "registered"
  /\ srvPc' = "exited"
  /\ UNCHANGED <<handlers, tools, transportOpen, inbox, outbox, sent>>
  /\ UNCHANGED sandboxVars

\* run(): loop { tokio::time::sleep(1 s).await } - the sleep starts.
SleepStart ==
  /\ srvPc = "loop"
  /\ srvPc' = "sleeping"
  /\ UNCHANGED <<handlers, tools, transportOpen, inbox, outbox, sent>>
  /\ UNCHANGED sandboxVars

\* The timer fires, and the loop goes round: it has no exit.
SleepWake ==
  /\ srvPc = "sleeping"
  /\ srvPc' = "loop"
  /\ UNCHANGED <<handlers, tools, transportOpen, inbox, outbox, sent>>
  /\ UNCHANGED sandboxVars

Serving == srvPc \in {"loop", "sleeping"}

\* The peer writes a request on the server's standard input.
PeerSend ==
  \E shape \in RequestShapes :
    /\ Serving
    /\ transportOpen
    /\ sent < MaxRequests
    /\ sent' = sent + 1
    /\ inbox' = inbox \cup {Request(sent + 1, shape[1], shape[2])}
    /\ UNCHANGED <<srvPc, handlers, tools, transportOpen, outbox>>
    /\ UNCHANGED sandboxVars

\* The protocol answers a request: with the result of the handler set for
\* its method, or with a MethodNotFound error when none is.
Respond(req) ==
  IF req.method \notin handlers THEN ErrorResponse(req, "MethodNotFound")
  ELSE IF req.method = "tools/list" THEN ResultResponse(req, ListToolsHandler(req))
  ELSE ResultResponse(req, CallToolHandler(req))

Dispatch ==
  \E req \in inbox :
    /\ Serving
    /\ transportOpen
    /\ inbox' = inbox \ {req}
    /\ outbox' = Append(outbox, Respond(req))
    /\ UNCHANGED <<srvPc, handlers, tools, transportOpen, sent>>
    /\ UNCHANGED sandboxVars

\* The peer closes the stream: end-of-stream on standard input.
PeerClose ==
  /\ Serving
  /\ transportOpen
  /\ transportOpen' = FALSE
  /\ UNCHANGED <<srvPc, handlers, tools, inbox, outbox, sent>>
  /\ UNCHANGED sandboxVars

\* The filesystem operations of FileSystemManager.
Next ==
  \/ CallReadFile \/ CallWriteFile \/ CallCreateDirectory
  \/ CallListDirectory \/ CallMoveFile \/ CallSearchFiles \/ CallGetFileInfo
  \/ ValidateArg
  \/ ReadFileIo \/ WriteFileIo \/ CreateDirectoryIo \/ ListDirectoryIo
  \/ MoveFileIo \/ SearchFilesIo \/ GetFileInfoIo
  \/ Return

Spec == Init /\ [][Next]_vars

\* The two path sandboxes, each validate_path applied to every raw path.
SandboxNext == ServerValidate \/ ManagerValidate \/ Return

SandboxSpec == Init /\ [][SandboxNext]_vars

\* The two path sandboxes constructed from directories written in any of
\* the accepted ways.
ConstructSpec == ConstructedInit /\ [][SandboxNext]_vars

\* read_multiple_files, under every order of completion.
BatchNext ==
  ReadMultipleFiles \/ BatchSpawn \/ BatchComplete \/ BatchReturn \/ Return

BatchSpec == Init /\ [][BatchNext]_vars

\* The same, with the scheduling the executor gives: collect() keeps
\* polling the buffer, which takes a waiting path when it has room, every
\* validate+read in the queue finishes, and a finished collect returns.
FairBatchSpec ==
  /\ BatchSpec
  /\ WF_vars(BatchSpawn)
  /\ WF_vars(BatchComplete)
  /\ WF_vars(BatchReturn)

\* The server process: run() and the peer on the other end of the transport.
ServerNext ==
  \/ RegisterHandlers \/ ConnectOk \/ ConnectErr
  \/ SleepStart \/ SleepWake
  \/ PeerSend \/ Dispatch \/ PeerClose

ServerSpec == Init /\ [][ServerNext]_vars

\* The same, with the scheduling the runtime gives: a sleep that can start
\* starts, a timer that can fire fires, a request that can be answered is.
FairServerSpec ==
  /\ ServerSpec
  /\ WF_vars(SleepStart)
  /\ WF_vars(SleepWake)
  /\ WF_vars(Dispatch)

(* -------------------------------- claims ------------------------------ *)
\* The allowed roots as component sequences (they are absolute and free of
\* links and dots when the sandboxes are constructed).
RootComps == {Clean(Absolute(r)).comps : r \in roots}

\* Some allowed root is a component-wise ancestor of, or equal to, comps.
UnderSomeRoot(comps) == \E r \in RootComps : IsPrefix(r, comps)

\* A validate_path of either sandbox has returned.
ValidateReturned ==
  call.op \in {"validate_path", "server_validate_path"} /\ call.pc = "done"

\* What the sandbox that ran normalises its argument to: clean for
\* FileSystemManager, canonicalize for FileSystemServer.
NormalizedArg ==
  IF call.op = "validate_path" THEN Clean(Absolute(call.paths[1])).comps
  ELSE Canonicalize(fs, call.paths[1]).path

\* C1: validate(p) succeeds only if some allowed root is a component-wise
\* ancestor of, or equal to, the normalized p; a sibling directory whose
\* name only shares a character prefix with a root (/do beside the root /d)
\* is never admitted.
C1_ComponentWiseContainment ==
  (ValidateReturned /\ call.ok) => UnderSomeRoot(NormalizedArg)

\* The argument starts, as written, inside an allowed root, goes up with
\* ".." and ends, once the ".." are eliminated, outside every allowed root.
TraversalOutside(p) ==
  /\ \E r \in roots : PathStartsWith(Absolute(p), r)
  /\ \E i \in 1..Len(p.comps) : p.comps[i] = DotDot
  /\ ~UnderSomeRoot(Clean(Absolute(p)).comps)

\* C2: validate of a path that leaves the allowed root through ".." (such
\* as <root>/../secrets) fails, and the failure is reported with the
\* AccessDenied error kind, not as a generic I/O error.
C2_TraversalIsAccessDenied ==
  (ValidateReturned /\ TraversalOutside(call.paths[1]))
    => (~call.ok /\ call.err = "AccessDenied")

\* Resolving the path follows at least one symbolic link.
ThroughLink(f, p) ==
  LET r == Canonicalize(f, p) IN r.ok /\ r.fuel < MaxLinkHops

\* C3: symbolic links are resolved before the containment check: a path
\* that is, or passes through, a link is validated only if the location the
\* operating system resolves the returned path to is under an allowed root.
C3_LinksResolvedBeforeCheck ==
  (ValidateReturned /\ call.ok /\ ThroughLink(fs, call.valid[1]))
    => UnderSomeRoot(Canonicalize(fs, call.valid[1]).path)

\* C4: in every path-bearing operation each path the operation has bound as
\* validated is the output of a successful validate_path of the argument at
\* that position, a filesystem call is made only once every path argument
\* has been validated and is made on the validated paths, and when the
\* validation of any argument (source or destination of move_file alike)
\* fails, the operation makes no filesystem call at all.
C4_ValidateBeforeIo ==
  call.op \in PathOps =>
    /\ Len(call.valid) <= Len(call.paths)
    /\ \A i \in 1..Len(call.valid) :
         LET v == ManagerValidatePath(mgrAllowed, call.paths[i])
         IN  v.ok /\ call.valid[i] = v.path
    /\ (call.pc = "io" \/ call.io # <<>>) => Len(call.valid) = Len(call.paths)
    /\ \A k \in 1..Len(call.io) : call.io[k].paths = call.valid
    /\ (\E i \in 1..Len(call.paths) :
          ~ManagerValidatePath(mgrAllowed, call.paths[i]).ok)
         => (call.io = <<>> /\ (call.pc = "done" => ~call.ok))

\* C4's case: a move_file whose source passed validation and whose
\* destination did not has returned AccessDenied without a filesystem call.
C4_Witness ==
  /\ call.op = "move_file"
  /\ call.pc = "done"
  /\ ManagerValidatePath(mgrAllowed, call.paths[1]).ok
  /\ ~ManagerValidatePath(mgrAllowed, call.paths[2]).ok
  /\ call.err = "AccessDenied"
  /\ call.io = <<>>

\* C5: read_multiple_files returns its outcomes in the order of the
\* request: the i-th entry of the result is the outcome for paths[i].
C5_ResultsInRequestOrder ==
  batch.pc = "done" =>
    \A i \in 1..Len(batch.results) : batch.results[i].path = batch.paths[i]

Occurrences(seq, x) == Cardinality({i \in 1..Len(seq) : seq[i] = x})

C7_ExitsAfterPeerCloses ==
  (Serving /\ ~transportOpen) ~> (srvPc = "exited")

\* The entry a rename's path names (its last component not followed).
EntryOf(f, p) == ResolveNoFollow(f, p)

\* C8: a move_file whose paths are both inside the sandbox and whose
\* destination already exists (an entry other than the source) fails and
\* leaves the filesystem, source and destination included, as it was.
C8_MoveOntoExistingFails ==
  [][(/\ call.op = "move_file"
      /\ call.pc = "io"
      /\ call'.pc = "done"
      /\ EntryOf(fs, call.valid[1]).ok
      /\ EntryOf(fs, call.valid[2]).ok
      /\ Exists(fs, EntryOf(fs, call.valid[1]).path)
      /\ Exists(fs, EntryOf(fs, call.valid[2]).path)
      /\ EntryOf(fs, call.valid[1]).path # EntryOf(fs, call.valid[2]).path
      /\ UnderSomeRoot(EntryOf(fs, call.valid[1]).path)
      /\ UnderSomeRoot(EntryOf(fs, call.valid[2]).path))
     => (~call'.ok /\ fs' = fs)]_vars

\* The path resolves to a location under an allowed root.
InSandbox(f, p) ==
  LET r == Canonicalize(f, p) IN r.ok /\ UnderSomeRoot(r.path)

\* What search_files is to return from dir: the entries whose name matches
\* and that are inside the sandbox, at any depth, without reporting or
\* descending into an entry that resolves outside it.
RECURSIVE ExpectedSearch(_, _, _)
ExpectedSearch(f, dir, pattern) ==
  LET rd == ReadDir(f, dir)
      entry(n) == RawPath(dir.abs, Append(dir.comps, n))
      inside == IF rd.ok THEN {n \in rd.val : InSandbox(f, entry(n))} ELSE {}
  IN  {ToStringLossy(entry(n)) : n \in {m \in inside : NameMatches(m, pattern)}}
        \cup UNION {ExpectedSearch(f, entry(n), pattern) :
                      n \in {m \in inside : IsDir(f, entry(m))}}

\* C9: search_files on a root inside the sandbox returns exactly the
\* descendants whose base name contains the pattern, case-insensitively,
\* and that are inside the sandbox; nothing reached only through a link
\* that points outside the allowed roots is reported or descended into.
C9_SearchStaysInSandbox ==
  (/\ call.op = "search_files"
   /\ call.pc = "done"
   /\ call.ok
   /\ InSandbox(fs, call.valid[1]))
    => call.val = ExpectedSearch(fs, call.valid[1], call.pattern)

\* C10: a tools/call request for a tool that is not registered is answered
\* with a result (not a protocol error) whose payload carries isError = true.
C10_UnknownToolIsToolError ==
  \A k \in 1..Len(outbox) :
    (outbox[k].method = "tools/call" /\ outbox[k].name \notin ToolNames)
      => /\ outbox[k].kind = "result"
         /\ "isError" \in DOMAIN outbox[k].result
         /\ outbox[k].result["isError"] = TRUE

\* The responses to tools/list, oldest first, as positions of the outbox.
ListResponses == {k \in 1..Len(outbox) : outbox[k].method = "tools/list"}

AllReadsCompleted ==
  /\ batch.next > Len(batch.paths)
  /\ batch.inflight = {}
  /\ Len(batch.results) = Len(batch.paths)

\* C12: during read_multiple_files the validate+read operations started
\* and not yet completed are never more than 10, however long the list of
\* paths is, and every requested path's read is eventually started and
\* completed: a running call leads to a return with all of them done.
C12_BoundedConcurrency ==
  /\ [](Cardinality(batch.inflight) <= 10)
  /\ (batch.pc = "running") ~> (batch.pc = "done" /\ AllReadsCompleted)

\* C12's case: ten reads are in flight and a requested path is waiting for
\* one of them to complete.
C12_Witness ==
  /\ batch.pc = "running"
  /\ Cardinality(batch.inflight) = 10
  /\ batch.next <= Len(batch.paths)

\* The absolute, canonical form of a supplied root.
CanonicalRoot(f, r) == AbsPath(Canonicalize(f, r).path)

\* p is a supplied root, or an existing path written beneath one and
\* located beneath it.
BeneathSuppliedRoot(f, p) ==
  \E r \in roots :
    /\ PathStartsWith(p, r)
    /\ \A i \in 1..Len(p.comps) : p.comps[i] # DotDot
    /\ Canonicalize(f, p).ok
    /\ IsPrefix(Canonicalize(f, r).path, Canonicalize(f, p).path)

\* C13: after construction every stored allowed root is the absolute,
\* canonical form of a supplied root (in the representation the sandbox
\* keeps: paths for FileSystemServer, lower-cased strings for
\* FileSystemManager), it stays so whatever is called later, and therefore
\* validate of every supplied root, relative or absolute, and of every
\* existing path beneath one succeeds.
C13_RootsCanonicalAndFixed ==
  /\ srvAllowed = {CanonicalRoot(fs, r) : r \in roots}
  /\ mgrAllowed = {ToLowercase(ToStringLossy(CanonicalRoot(fs, r))) : r \in roots}
  /\ (ValidateReturned /\ BeneathSuppliedRoot(fs, call.paths[1])) => call.ok
====
